---- MODULE Spec2Model ----
(***************************************************************************)
(* TigerLine: the cross-shore wave-profile transform that PhysicsView      *)
(* (frontend/src/components/PhysicsView.tsx) runs on every render, and the *)
(* unit projector of UnitContext it uses.                                  *)
(*                                                                         *)
(* Numbers.  JavaScript numbers are modelled as exact rationals [n, d]     *)
(* (d = 0 stands for the IEEE specials: 1/0 = Infinity, -1/0 = -Infinity,  *)
(* 0/0 = NaN), so every statement below is about the arithmetic the code   *)
(* writes down, free of rounding.  A value in display units is the pair    *)
(* [q, k] standing for q * 3.28084^k: convertHeight / convertDistance      *)
(* multiply by 3.28084 in the imperial system, and the pair keeps that     *)
(* product exact.  Angles are measured in turns (phase / 2*pi), so that    *)
(* Math.PI / 2 is the rational 1/4 and 2*pi/L is 1/L.                      *)
(***************************************************************************)
EXTENDS Integers, Sequences, FiniteSets

VARIABLES
    shoalingPath,            \* current.physics.shoaling_path_surf: the samples
    distance_from_shore_m,   \* current.physics.breaking.distance_from_shore_m, or null
    period_s,                \* current.period_s (0 when the entry has none)
    tideLevel,               \* current.tide.level_m
    units,                   \* UnitContext: "metric" or "imperial"
    showPhysics,             \* index.tsx: whether the physics panel is open
    forecastData,            \* index.tsx: the forecast last received, or null
    loading,                 \* index.tsx: the spinner is shown
    error,                   \* index.tsx: the message of the error view, or null
    pending,                 \* the calls of fetchForecast that await their response
    lastStarted,             \* the latest call of fetchForecast, and its response once
                             \*   it has resolved with one
    breakingPointFromPhysics,\* the detected breaking point, or null
    breakingDistM,           \* the breaking distance in use, metres
    bathymetryFromPhysics,   \* the interpolated depth profile, metres
    bathymetryData,          \* the three sequences handed to the chart,
    waveEnvelopeData,        \*   in display units
    waveShapeData,
    surfaceSteps,            \* x_m, H_surf_m, c and y_m of each step of the surface loop
    notice                   \* the no-data paragraph PhysicsView returns early with, or null

vars == <<shoalingPath, distance_from_shore_m, period_s, tideLevel, units, showPhysics,
          breakingPointFromPhysics, breakingDistM, bathymetryFromPhysics,
          bathymetryData, waveEnvelopeData, waveShapeData, surfaceSteps, notice,
          forecastData, loading, error, pending, lastStarted>>

inputs == <<shoalingPath, distance_from_shore_m, period_s, tideLevel>>

page == <<forecastData, loading, error, pending, lastStarted>>

(***************************************************************************)
(* Rational arithmetic                                                     *)
(***************************************************************************)
Abs(i) == IF i < 0 THEN 0 - i ELSE i

Sgn(i) == IF i < 0 THEN 0 - 1 ELSE IF i > 0 THEN 1 ELSE 0

RECURSIVE GCD(_, _)
GCD(a, b) == IF b = 0 THEN a ELSE GCD(b, a % b)

\* the normal form: lowest terms, d > 0; or sign/0 for Infinity, -Infinity, NaN
Lowest(n, d, g) == [n |-> Sgn(d) * (n \div g), d |-> Abs(d) \div g]

Norm(n, d) ==
    IF d = 0 THEN [n |-> Sgn(n), d |-> 0]
    ELSE IF d = 1 THEN [n |-> n, d |-> 1]
    ELSE Lowest(n, d, GCD(Abs(n), Abs(d)))

R(n, d) == Norm(n, d)

I(i) == [n |-> i, d |-> 1]

\* the factor two denominators share (1 when one of them is a special)
NonZero(g) == IF g = 0 THEN 1 ELSE g

Common(a, b) ==
    IF a.d = b.d THEN NonZero(a.d) ELSE NonZero(GCD(a.d, b.d))

AddOver(a, b, g) ==
    Norm(a.n * (b.d \div g) + b.n * (a.d \div g), (a.d \div g) * b.d)

RAdd(a, b) == AddOver(a, b, Common(a, b))

RNeg(a) == [n |-> 0 - a.n, d |-> a.d]

RSub(a, b) == RAdd(a, RNeg(b))

\* the product of two fractions already cancelled crosswise
Cross(x, y) == Norm(x.n * y.n, x.d * y.d)

RMul(a, b) ==
    IF a.d = 0 \/ b.d = 0 THEN Norm(a.n * b.n, 0)
    ELSE Cross(Norm(a.n, b.d), Norm(b.n, a.d))

\* JavaScript division: x / 0 is Infinity, -Infinity or NaN, never an exception
RDiv(a, b) == RMul(a, Norm(b.d, b.n))

LtOver(a, b, g) == a.n * (b.d \div g) < b.n * (a.d \div g)

RLt(a, b) == LtOver(a, b, Common(a, b))

LeOver(a, b, g) == a.n * (b.d \div g) <= b.n * (a.d \div g)

RLe(a, b) == LeOver(a, b, Common(a, b))

RAbs(a) == [n |-> Abs(a.n), d |-> a.d]

RMax(a, b) == IF RLt(a, b) THEN b ELSE a

RMin(a, b) == IF RLt(b, a) THEN b ELSE a

Zero == I(0)

\* a sequence written as a function, as the tuple of its elements
Tuple(f) == f \o <<>>

Infinity == [n |-> 1, d |-> 0]

\* a field a sample does not have: undefined, which is falsy, differs from
\* every number under !== and gives NaN in arithmetic
Missing == [n |-> 0, d |-> 0]

\* a JavaScript number is falsy when it is 0 or NaN
Falsy(a) == a.n = 0

\* v || dflt
OrElse(v, dflt) == IF Falsy(v) THEN dflt ELSE v

(***************************************************************************)
(* Program constants                                                       *)
(***************************************************************************)
MAX_DISTANCE_M == I(152)

MIN_DISTANCE_M == I(0 - 6)

GAMMA_B == R(78, 100)

numBathyPoints == 20

\* the beach slope of the depth estimates, 0.03
BeachSlope == R(3, 100)

\* the phase speed a sample without one is given, 10.0
DefaultC == I(10)

\* the wave period used when the forecast entry has none, 11.0
DefaultPeriod == I(11)

\* the beach point pushed after the bathymetry grid, { x: -6, h: -1.5 }
BeachPoint == [x |-> I(0 - 6), h |-> R(0 - 3, 2)]

(***************************************************************************)
(* Optional values: <<>> is null, <<v>> is the value v                     *)
(***************************************************************************)
Null == <<>>

Some(v) == <<v>>

IsNull(o) == o = <<>>

(***************************************************************************)
(* The bounding-sample search and the linear interpolation.  The source    *)
(* repeats the same search three times (depth, envelope height, surface    *)
(* height); the three copies differ only in the field they read.           *)
(***************************************************************************)
RECURSIVE ScanBefore(_, _, _, _)
ScanBefore(path, x_m, i, cb) ==
    IF i > Len(path) THEN cb
    ELSE LET p == path[i]
             take == /\ RLe(x_m, OrElse(p.x, Zero))
                     /\ \/ IsNull(cb)
                        \/ RLt(OrElse(p.x, Zero), OrElse(cb[1].x, Infinity))
         IN  ScanBefore(path, x_m, i + 1, IF take THEN Some(p) ELSE cb)

RECURSIVE ScanAfter(_, _, _, _)
ScanAfter(path, x_m, i, ca) ==
    IF i > Len(path) THEN ca
    ELSE LET p == path[i]
             take == /\ RLe(OrElse(p.x, Zero), x_m)
                     /\ \/ IsNull(ca)
                        \/ RLt(OrElse(ca[1].x, Zero), OrElse(p.x, Zero))
         IN  ScanAfter(path, x_m, i + 1, IF take THEN Some(p) ELSE ca)

\* the offshore bound taken among the samples of the charted range only
closestBefore_ChartedOnly(path, x_m) ==
    LET cb == ScanBefore(path, x_m, 1, Null)
    IN  IF ~IsNull(cb) /\ RLt(MAX_DISTANCE_M, cb[1].x) THEN Null ELSE cb

\* closestBefore: a sample at or beyond x_m (offshore side)
closestBefore(path, x_m) == ScanBefore(path, x_m, 1, Null)

\* closestAfter: a sample at or short of x_m (shore side)
closestAfter(path, x_m) == ScanAfter(path, x_m, 1, Null)

\* the linear branch without the equal-distance shortcut
BothDiffer_NoShortcut(cb, ca) == ~IsNull(cb) /\ ~IsNull(ca)

\* the guard of the linear branch: both bounds exist and their x differ
BothDiffer(cb, ca) == ~IsNull(cb) /\ ~IsNull(ca) /\ cb[1].x # ca[1].x

\* the denominator of t
SpanOf(cb, ca) == RSub(OrElse(cb[1].x, Zero), OrElse(ca[1].x, Zero))

\* t measured from the offshore bound
TOf_FromBefore(cb, ca, x_m) ==
    RDiv(RSub(OrElse(cb[1].x, Zero), x_m), SpanOf(cb, ca))

\* t = (x_m - after.x) / (before.x - after.x)
TOf(cb, ca, x_m) == RDiv(RSub(x_m, OrElse(ca[1].x, Zero)), SpanOf(cb, ca))

\* after.v + t * (before.v - after.v)
Blend(va, vb, t) == RAdd(va, RMul(t, RSub(vb, va)))

\* h_interp at x_m (bathymetry)
h_interp(path, x_m) ==
    LET cb == closestBefore(path, x_m)
        ca == closestAfter(path, x_m)
    IN  IF BothDiffer(cb, ca)
        THEN Blend(OrElse(ca[1].h, Zero), OrElse(cb[1].h, Zero), TOf(cb, ca, x_m))
        ELSE IF ~IsNull(cb) THEN OrElse(cb[1].h, Zero)
        ELSE IF ~IsNull(ca) THEN OrElse(ca[1].h, Zero)
        ELSE RMax(Zero, RMul(x_m, BeachSlope))

\* H_surf at x_m (envelope) and H_surf_m at x_m (surface)
H_interp(path, x_m) ==
    LET cb == closestBefore(path, x_m)
        ca == closestAfter(path, x_m)
    IN  IF BothDiffer(cb, ca)
        THEN Blend(OrElse(ca[1].H, Zero), OrElse(cb[1].H, Zero), TOf(cb, ca, x_m))
        ELSE IF ~IsNull(cb) THEN OrElse(cb[1].H, Zero)
        ELSE IF ~IsNull(ca) THEN OrElse(ca[1].H, Zero)
        ELSE Zero

\* the denominators an interpolation at x_m divides by
InterpDenoms(path, x_m) ==
    LET cb == closestBefore(path, x_m)
        ca == closestAfter(path, x_m)
    IN  IF BothDiffer(cb, ca) THEN {SpanOf(cb, ca)} ELSE {}

(***************************************************************************)
(* Array.prototype.sort with (a, b) => b.x - a.x and (a, b) => a.x - b.x:  *)
(* a stable sort (insertion keeps equal keys in their input order).  An    *)
(* element that belongs at the end is appended without a scan.             *)
(***************************************************************************)
RECURSIVE InsertDesc(_, _, _)
InsertDesc(sorted, e, i) ==
    IF i > Len(sorted) \/ ~RLt(sorted[Len(sorted)].x, e.x) THEN Append(sorted, e)
    ELSE IF RLt(sorted[i].x, e.x)
         THEN SubSeq(sorted, 1, i - 1) \o <<e>> \o SubSeq(sorted, i, Len(sorted))
         ELSE InsertDesc(sorted, e, i + 1)

RECURSIVE SortDesc(_, _, _)
SortDesc(seq, i, acc) ==
    IF i > Len(seq) THEN acc
    ELSE SortDesc(seq, i + 1, InsertDesc(acc, seq[i], 1))

SortDescByX(seq) == SortDesc(seq, 1, <<>>)

\* the sort key of sortedPath and nearshoreData is (p.x || 0)
KeyedPath(path) ==
    Tuple([i \in 1..Len(path) |-> [x |-> OrElse(path[i].x, Zero), p |-> path[i]]])

\* the samples left in input order
sortedPath_Unsorted(path) == path

sortedPath(path) ==
    LET s == SortDescByX(KeyedPath(path)) IN Tuple([i \in 1..Len(s) |-> s[i].p])

(***************************************************************************)
(* Breaking-point detection                                                *)
(***************************************************************************)
\* the ratio evaluated at every depth
DepthPositive_Always(point) == TRUE

\* the guard in front of the ratio: point.h > 0
DepthPositive(point) == RLt(Zero, point.h)

\* H_d_ratio = point.H / point.h
H_d_ratio(point) == RDiv(point.H, point.h)

\* v !== undefined
Defined(v) == v # Missing

\* the test of one sample: H and h present, h > 0 and H / h >= GAMMA_B
Qualifies(point) ==
    /\ Defined(point.H)
    /\ Defined(point.h)
    /\ DepthPositive(point)
    /\ RLe(GAMMA_B, H_d_ratio(point))

\* the denominators the scan divides by: the depth of every sample it tests
\* up to and including the one it stops at
RECURSIVE RatioDenoms(_, _)
RatioDenoms(sp, i) ==
    IF i > Len(sp) THEN {}
    ELSE IF Defined(sp[i].H) /\ DepthPositive(sp[i])
         THEN {sp[i].h} \cup (IF Qualifies(sp[i]) THEN {} ELSE RatioDenoms(sp, i + 1))
         ELSE RatioDenoms(sp, i + 1)

RECURSIVE FirstQualifying(_, _)
FirstQualifying(sp, i) ==
    IF i > Len(sp) THEN Null
    ELSE IF Qualifies(sp[i])
         THEN Some([x |-> OrElse(sp[i].x, Zero), h |-> sp[i].h, H |-> sp[i].H,
                    c |-> OrElse(sp[i].c, DefaultC)])
         ELSE FirstQualifying(sp, i + 1)

DetectBreakingPoint(path) ==
    IF Len(path) > 0 THEN FirstQualifying(sortedPath(path), 1) ELSE Null

(***************************************************************************)
(* UnitContext: convertHeight and convertDistance.  A display value is     *)
(* [q, k], the number q * 3.28084^k; zero is kept as [0, 0].               *)
(***************************************************************************)
FeetPerMeter == R(328084, 100000)

Disp(q, k) == IF q.n = 0 /\ q.d # 0 THEN [q |-> q, k |-> 0] ELSE [q |-> q, k |-> k]

\* a plain number (metres, or a literal of the code) as a display value
Plain(q) == Disp(q, 0)

\* the imperial factor applied twice
convertHeight_Twice(v, u) == IF u = "metric" THEN v ELSE Disp(v.q, v.k + 2)

convertHeight(v, u) == IF u = "metric" THEN v ELSE Disp(v.q, v.k + 1)

convertDistance(v, u) == IF u = "metric" THEN v ELSE Disp(v.q, v.k + 1)

\* q * 3.28084^j, multiplied out
RECURSIVE Scaled(_, _)
Scaled(q, j) == IF j = 0 THEN q ELSE Scaled(RMul(q, FeetPerMeter), j - 1)

DLt(a, b) ==
    IF a.k = b.k THEN RLt(a.q, b.q)
    ELSE IF a.k > b.k THEN RLt(Scaled(a.q, a.k - b.k), b.q)
    ELSE RLt(a.q, Scaled(b.q, b.k - a.k))

DLe(a, b) == ~DLt(b, a)

DNeg(a) == [q |-> RNeg(a.q), k |-> a.k]

DAbs(a) == [q |-> RAbs(a.q), k |-> a.k]

\* a - b of two values of one unit system
DSub(a, b) ==
    IF a.k = b.k THEN Disp(RSub(a.q, b.q), a.k)
    ELSE IF a.k > b.k THEN Disp(RSub(Scaled(a.q, a.k - b.k), b.q), b.k)
    ELSE Disp(RSub(a.q, Scaled(b.q, b.k - a.k)), a.k)

DMax(a, b) == IF DLt(a, b) THEN b ELSE a

DZero == Plain(Zero)

\* the tolerances of the shore-point and breaking-point searches, 0.1 and 0.01
Tenth == Plain(R(1, 10))

Hundredth == Plain(R(1, 100))

(***************************************************************************)
(* Bathymetry                                                              *)
(***************************************************************************)
\* a grid that stops one step short of the offshore extent
BathyX_OneShort(i) == RMul(RDiv(I(i), I(numBathyPoints + 1)), MAX_DISTANCE_M)

\* x_m = (i / numBathyPoints) * MAX_DISTANCE_M
BathyX(i) == RMul(RDiv(I(i), I(numBathyPoints)), MAX_DISTANCE_M)

BuildBathymetryFromPhysics(path, tide) ==
    LET grid == IF Len(path) > 0
                THEN [j \in 1..(numBathyPoints + 1) |->
                        LET x_m == BathyX(j - 1)
                        IN  [x |-> x_m, h |-> h_interp(path, x_m)]]
                ELSE [j \in 1..(numBathyPoints + 1) |->
                        LET x_m == BathyX(j - 1)
                        IN  [x |-> x_m,
                             h |-> RMax(Zero, RAdd(RMul(x_m, BeachSlope), tide))]]
    IN  SortDescByX(Append(grid, BeachPoint))

\* the denominators of the bathymetry loop
BathyDenoms(path) ==
    IF Len(path) > 0
    THEN {I(numBathyPoints)} \cup
         UNION {InterpDenoms(path, BathyX(j - 1)) : j \in 1..(numBathyPoints + 1)}
    ELSE {I(numBathyPoints)}

(***************************************************************************)
(* Breaking distance                                                       *)
(***************************************************************************)
\* breakingPointFromPhysics?.x || breaking.distance_from_shore_m || 0
ComputeBreakingDistM(bp, dflt) ==
    LET fromPhysics == IF IsNull(bp) THEN Zero ELSE bp[1].x
        fromApi == IF IsNull(dflt) THEN Zero ELSE dflt[1]
    IN  OrElse(OrElse(fromPhysics, fromApi), Zero)

ComputeBreakingDistDisplay(bd, dflt, u) ==
    IF RLt(Zero, bd) THEN convertDistance(Plain(bd), u)
    ELSE IF ~IsNull(dflt) THEN convertDistance(Plain(dflt[1]), u)
    ELSE DZero

(***************************************************************************)
(* Wave envelope                                                           *)
(***************************************************************************)
EnvelopePoint(x, bathymetryY, H_surf) ==
    [x |-> x, bathymetryY |-> bathymetryY,
     waveCrestY |-> IF RLt(Zero, H_surf) THEN Some(RNeg(RDiv(H_surf, I(2)))) ELSE Null,
     waveTroughY |-> IF RLt(Zero, H_surf) THEN Some(RDiv(H_surf, I(2))) ELSE Null,
     waterSurfaceY |-> Zero]

\* shoalingPath.reduce(...): the sample nearest the shore, the first on a tie
RECURSIVE NearestToShore(_, _, _)
NearestToShore(path, i, closest) ==
    IF i > Len(path) THEN closest
    ELSE NearestToShore(path, i + 1,
            IF RLt(RAbs(OrElse(path[i].x, Zero)), RAbs(OrElse(closest.x, Zero)))
            THEN path[i] ELSE closest)

visualizationDataMeters(path, bathymetryPoints) ==
    LET pts == Tuple([j \in 1..Len(bathymetryPoints) |->
                  LET x_m == bathymetryPoints[j].x
                      H_surf == IF Len(path) > 0 /\ RLe(Zero, x_m)
                                THEN H_interp(path, x_m) ELSE Zero
                  IN  EnvelopePoint(x_m, bathymetryPoints[j].h, H_surf)])
        hasShorePointMeters == \E j \in 1..Len(pts) : RLt(RAbs(pts[j].x), R(1, 10))
        H_surf_shore == IF Len(path) > 0
                        THEN OrElse(NearestToShore(path, 1, path[1]).H, Zero)
                        ELSE Zero
    IN  SortDescByX(IF hasShorePointMeters THEN pts
                    ELSE Append(pts, EnvelopePoint(Zero, Zero, H_surf_shore)))

\* the denominators of the envelope loop
EnvelopeDenoms(path, bathymetryPoints) ==
    IF Len(path) > 0
    THEN UNION {IF RLe(Zero, bathymetryPoints[j].x)
                THEN InterpDenoms(path, bathymetryPoints[j].x) ELSE {}
                : j \in 1..Len(bathymetryPoints)}
    ELSE {}

\* visualizationDataMeters.map(...).filter(MIN_DISTANCE <= x <= MAX_DISTANCE)
visualizationData(meters, u) ==
    LET MIN_DISTANCE == convertDistance(Plain(MIN_DISTANCE_M), u)
        MAX_DISTANCE == convertDistance(Plain(MAX_DISTANCE_M), u)
        conv == Tuple([j \in 1..Len(meters) |->
                   [x |-> convertDistance(Plain(meters[j].x), u),
                    bathymetryY |-> convertHeight(Plain(meters[j].bathymetryY), u),
                    waveCrestY |-> IF IsNull(meters[j].waveCrestY) THEN Null
                                   ELSE Some(DNeg(convertHeight(Plain(RAbs(meters[j].waveCrestY[1])), u))),
                    waveTroughY |-> IF IsNull(meters[j].waveTroughY) THEN Null
                                    ELSE Some(convertHeight(Plain(meters[j].waveTroughY[1]), u)),
                    waterSurfaceY |-> DZero]])
        InRange(d) == DLe(MIN_DISTANCE, d.x) /\ DLe(d.x, MAX_DISTANCE)
    IN  SelectSeq(conv, InRange)

\* Array.prototype.sort with (a, b) => a.x - b.x on display values
RECURSIVE InsertAsc(_, _, _)
InsertAsc(sorted, e, i) ==
    IF i > Len(sorted) \/ ~DLt(e.x, sorted[Len(sorted)].x) THEN Append(sorted, e)
    ELSE IF DLt(e.x, sorted[i].x)
         THEN SubSeq(sorted, 1, i - 1) \o <<e>> \o SubSeq(sorted, i, Len(sorted))
         ELSE InsertAsc(sorted, e, i + 1)

RECURSIVE SortAsc(_, _, _)
SortAsc(seq, i, acc) ==
    IF i > Len(seq) THEN acc
    ELSE SortAsc(seq, i + 1, InsertAsc(acc, seq[i], 1))

SortAscByX(seq) == SortAsc(seq, 1, <<>>)

\* the first index of seq whose element passes Test, 0 when there is none
RECURSIVE FindIndex(_, _, _)
FindIndex(seq, Test(_), i) ==
    IF i > Len(seq) THEN 0
    ELSE IF Test(seq[i]) THEN i ELSE FindIndex(seq, Test, i + 1)

\* reduce(...): the display point nearest x = 0, the first on a tie
RECURSIVE NearestDisplay(_, _, _)
NearestDisplay(data, i, closest) ==
    IF i > Len(data) THEN closest
    ELSE NearestDisplay(data, i + 1,
            IF DLt(DAbs(data[i].x), DAbs(closest.x)) THEN data[i] ELSE closest)

\* Step 1: the point of visualizationData at x = 0, or one made from the nearest
shorePoint(data) ==
    LET AtShore(d) == DLt(DAbs(d.x), Hundredth)
        idx == FindIndex(data, AtShore, 1)
        nearest == NearestDisplay(data, 1, data[1])
    IN  IF idx > 0 THEN data[idx]
        ELSE [x |-> DZero, bathymetryY |-> DZero,
              waveCrestY |-> nearest.waveCrestY, waveTroughY |-> nearest.waveTroughY,
              waterSurfaceY |-> DZero]

\* Steps 2 to 4: the bathymetry handed to the chart
BuildBathymetryData(data, u) ==
    LET MAX_DISTANCE == convertDistance(Plain(MAX_DISTANCE_M), u)
        InBathy(d) == DLe(DZero, d.x) /\ DLe(d.x, MAX_DISTANCE)
        AtShore(d) == DLt(DAbs(d.x), Hundredth)
        kept == SelectSeq(data, InBathy)
    IN  SortAscByX(IF FindIndex(kept, AtShore, 1) > 0 THEN kept
                   ELSE Append(kept, shorePoint(data)))

\* the envelope strictly seaward of the shore, no shore point guaranteed
BuildWaveEnvelopeData_Seaward(data, breakingXDisplay, u) ==
    LET Seaward(d) == DLt(DZero, d.x) /\ DLe(d.x, DMax(breakingXDisplay, convertDistance(Plain(MAX_DISTANCE_M), u)))
    IN  SortAscByX(SelectSeq(data, Seaward))

\* the envelope without the cut at the breaking distance
BuildWaveEnvelopeData_NoCut(data, breakingXDisplay, u) == BuildBathymetryData(data, u)

\* Step 5: the wave envelope handed to the chart
BuildWaveEnvelopeData(data, breakingXDisplay, u) ==
    LET MAX_DISTANCE == convertDistance(Plain(MAX_DISTANCE_M), u)
        InEnvelope(d) ==
            IF DLe(breakingXDisplay, DZero)
            THEN DLe(DZero, d.x) /\ DLe(d.x, MAX_DISTANCE)
            ELSE DLe(DZero, d.x) /\ DLe(d.x, breakingXDisplay)
        AtShore(d) == DLt(DAbs(d.x), Hundredth)
        kept == SelectSeq(data, InEnvelope)
    IN  SortAscByX(IF FindIndex(kept, AtShore, 1) > 0 THEN kept
                   ELSE Append(kept, shorePoint(data)))

(***************************************************************************)
(* Wave surface                                                            *)
(***************************************************************************)
\* the number of intervals of the surface grid.  The source sets 600; the
\* model generates the same grid x_i = startX + (endX - startX) * i / numPoints
\* with fewer intervals.
numPoints == 4

\* Math.sin, with the angle in turns: 0 at 0 and 1/2, 1 at 1/4, -1 at 3/4,
\* linear in between (the sign, the zeros, the extrema and the bound |sin| <= 1
\* are those of the sine; the values in between are approximate)
SinTurns(u) ==
    IF u.d = 0 THEN [n |-> 0, d |-> 0]
    ELSE LET f == R(u.n % u.d, u.d)
         IN  IF RLe(f, R(1, 4)) THEN RMul(I(4), f)
             ELSE IF RLe(f, R(3, 4)) THEN RSub(I(2), RMul(I(4), f))
             ELSE RSub(RMul(I(4), f), I(4))

\* Math.PI / 2, in turns
QuarterTurn == R(1, 4)

\* current.period || 11.0
PeriodOf(period) == OrElse(period, DefaultPeriod)

RECURSIVE MaxX(_, _, _)
MaxX(path, i, m) ==
    IF i > Len(path) THEN m
    ELSE MaxX(path, i + 1, RMax(m, OrElse(path[i].x, Zero)))

\* Math.max(...shoalingPath.map(p => p.x || 0))
maxXFromPath(path) == MaxX(path, 2, OrElse(path[1].x, Zero))

startX(path) == RMin(MAX_DISTANCE_M, maxXFromPath(path))

endX(bd) == RMax(Zero, bd)

RECURSIVE SumC(_, _)
SumC(path, i) ==
    IF i > Len(path) THEN Zero
    ELSE RAdd(OrElse(path[i].c, DefaultC), SumC(path, i + 1))

avgC(path) == RDiv(SumC(path, 1), I(Len(path)))

\* the mean phase speed used whether or not a breaking point is known
wavelength_ref_MeanSpeed(path, bp, period) == RMul(avgC(path), period)

wavelength_ref(path, bp, period) ==
    IF ~IsNull(bp) /\ ~Falsy(bp[1].c) THEN RMul(bp[1].c, period)
    ELSE IF Len(path) > 0 THEN RMul(avgC(path), period)
    ELSE I(50)

\* k_ref = 2 * Math.PI / wavelength_ref, in turns per metre
k_ref(L) == RDiv(I(1), L)

globalPhaseOffset(L, bd) ==
    IF RLt(Zero, L) THEN RSub(QuarterTurn, RMul(k_ref(L), bd)) ELSE Zero

\* the grid cut into one interval more, so that its last step stops short of endX
SurfaceX_OneShort(path, bd, i) ==
    RAdd(startX(path),
         RMul(RSub(endX(bd), startX(path)), RDiv(I(i), I(numPoints + 1))))

\* x_m of step i
SurfaceX(path, bd, i) ==
    RAdd(startX(path),
         RMul(RSub(endX(bd), startX(path)), RDiv(I(i), I(numPoints))))

\* y_m = -amplitude_m * Math.sin(k_ref * x_m + globalPhaseOffset)
SurfaceY(H_surf_m, x_m, bd, L) ==
    LET amplitude_m == RDiv(H_surf_m, I(2))
        phase == RAdd(RMul(k_ref(L), x_m), globalPhaseOffset(L, bd))
    IN  RNeg(RMul(amplitude_m, SinTurns(phase)))

\* c at x_m in the surface loop.  The blend term of the source subtracts
\* closestBefore.c from itself.
c_interp(path, x_m) ==
    LET cb == closestBefore(path, x_m)
        ca == closestAfter(path, x_m)
    IN  IF BothDiffer(cb, ca)
        THEN RAdd(OrElse(ca[1].c, DefaultC),
                  RMul(TOf(cb, ca, x_m),
                       RSub(OrElse(cb[1].c, DefaultC), OrElse(cb[1].c, DefaultC))))
        ELSE IF ~IsNull(cb) THEN OrElse(cb[1].c, DefaultC)
        ELSE IF ~IsNull(ca) THEN OrElse(ca[1].c, DefaultC)
        ELSE DefaultC

\* a surface whose wavelength follows the local phase speed
SurfaceSteps_LocalSpeed(path, bd, L) ==
    Tuple([j \in 1..(numPoints + 1) |->
             LET x_m == SurfaceX(path, bd, j - 1)
                 H_surf_m == H_interp(path, x_m)
                 c == c_interp(path, x_m)
             IN  [x_m |-> x_m, H_surf_m |-> H_surf_m, c |-> c,
                  y_m |-> SurfaceY(H_surf_m, x_m, bd, RMul(L, RDiv(c, DefaultC)))]])

\* the values of the generation loop, step by step, in metres
SurfaceSteps(path, bd, L) ==
    Tuple([j \in 1..(numPoints + 1) |->
             LET x_m == SurfaceX(path, bd, j - 1)
                 H_surf_m == H_interp(path, x_m)
             IN  [x_m |-> x_m, H_surf_m |-> H_surf_m, c |-> c_interp(path, x_m),
                  y_m |-> SurfaceY(H_surf_m, x_m, bd, L)]])

\* the magnitude converted, the sign dropped
SignedHeight_Magnitude(y, u) == convertHeight(Plain(RAbs(y)), u)

\* y < 0 ? -convertHeight(Math.abs(y)).value : convertHeight(y).value
SignedHeight(y, u) ==
    IF RLt(y, Zero) THEN DNeg(convertHeight(Plain(RAbs(y)), u))
    ELSE convertHeight(Plain(y), u)

\* the points the loop pushes: converted, and kept when in the valid domain
GeneratedSurface(steps, bdDisplay, u) ==
    LET MAX_DISTANCE == convertDistance(Plain(MAX_DISTANCE_M), u)
        all == Tuple([j \in 1..Len(steps) |->
                  [x |-> convertDistance(Plain(steps[j].x_m), u),
                   y |-> SignedHeight(steps[j].y_m, u)]])
        Valid(p) == DLe(DZero, p.x) /\ DLe(p.x, DMax(bdDisplay, MAX_DISTANCE))
    IN  SelectSeq(all, Valid)

\* the forced crest at the breaking distance, and the sort that follows it
ForcedCrest(shape, bp, bd, u) ==
    LET breakingXDisplay == convertDistance(Plain(bd), u)
        breakingH == OrElse(bp[1].H, Zero)
        amplitude_break == RDiv(breakingH, I(2))
        y_break == RNeg(RMul(amplitude_break, SinTurns(QuarterTurn)))
        y_break_display == SignedHeight(y_break, u)
        Near(p) == DLt(DAbs(DSub(p.x, breakingXDisplay)), Tenth)
        idx == FindIndex(shape, Near, 1)
    IN  SortAscByX(IF idx = 0
                   THEN Append(shape, [x |-> breakingXDisplay, y |-> y_break_display])
                   ELSE [shape EXCEPT ![idx].y = y_break_display])

BuildSurfaceSteps(path, bp, bd, period) ==
    IF Len(path) > 0
    THEN SurfaceSteps(path, bd, wavelength_ref(path, bp, PeriodOf(period)))
    ELSE <<>>

BuildWaveShapeData(steps, bp, bd, bdDisplay, u) ==
    LET shape == GeneratedSurface(steps, bdDisplay, u)
    IN  IF Len(steps) = 0 THEN <<>>
        ELSE IF RLe(Zero, bd) /\ ~IsNull(bp) THEN ForcedCrest(shape, bp, bd, u)
        ELSE shape

\* the denominators of the surface computation
SurfaceDenoms(path, bp, bd, period) ==
    IF Len(path) > 0
    THEN {I(numPoints), wavelength_ref(path, bp, PeriodOf(period))}
         \cup (IF ~IsNull(bp) /\ ~Falsy(bp[1].c) THEN {} ELSE {I(Len(path))})
         \cup UNION {InterpDenoms(path, SurfaceX(path, bd, j - 1)) : j \in 1..(numPoints + 1)}
    ELSE {}

(***************************************************************************)
(* One render of PhysicsView                                               *)
(***************************************************************************)
Render(path, dflt, period, tide, u) ==
    LET bathy == BuildBathymetryFromPhysics(path, tide)
        bp == DetectBreakingPoint(path)
        bd == ComputeBreakingDistM(bp, dflt)
        meters == visualizationDataMeters(path, bathy)
        bdDisplay == ComputeBreakingDistDisplay(bd, dflt, u)
        data == visualizationData(meters, u)
        steps == BuildSurfaceSteps(path, bp, bd, period)
    IN  [breakingPointFromPhysics |-> bp,
         breakingDistM |-> bd,
         bathymetryFromPhysics |-> bathy,
         bathymetryData |-> BuildBathymetryData(data, u),
         waveEnvelopeData |-> BuildWaveEnvelopeData(data, bdDisplay, u),
         surfaceSteps |-> steps,
         notice |-> Null,
         waveShapeData |-> BuildWaveShapeData(steps, bp, bd, bdDisplay, u)]

\* every divisor one render divides by
Denominators(path, dflt, period, tide) ==
    LET bp == DetectBreakingPoint(path)
        bd == ComputeBreakingDistM(bp, dflt)
    IN  BathyDenoms(path)
        \cup (IF Len(path) > 0 THEN RatioDenoms(sortedPath(path), 1) ELSE {})
        \cup EnvelopeDenoms(path, BuildBathymetryFromPhysics(path, tide))
        \cup SurfaceDenoms(path, bp, bd, period)

\* nothing is kept of a view that is not mounted
NoView ==
    [breakingPointFromPhysics |-> Null, breakingDistM |-> Zero,
     bathymetryFromPhysics |-> <<>>, bathymetryData |-> <<>>,
     waveEnvelopeData |-> <<>>, surfaceSteps |-> <<>>, waveShapeData |-> <<>>,
     notice |-> Null]

Shown(view) ==
    /\ breakingPointFromPhysics' = view.breakingPointFromPhysics
    /\ breakingDistM' = view.breakingDistM
    /\ bathymetryFromPhysics' = view.bathymetryFromPhysics
    /\ bathymetryData' = view.bathymetryData
    /\ waveEnvelopeData' = view.waveEnvelopeData
    /\ surfaceSteps' = view.surfaceSteps
    /\ waveShapeData' = view.waveShapeData
    /\ notice' = view.notice

(***************************************************************************)
(* PhysicsView as a component.  Its prop is null or <<forecast>>, and a    *)
(* forecast is written by what PhysicsView reads of forecast.forecast:     *)
(* <<>> is an empty list, <<period, tide>> a first entry without physics   *)
(* record, <<samples, distance, period, tide>> a first entry with one.     *)
(***************************************************************************)
NoPhysicsData == "No physics data available"

NoCurrentPhysics == "No physics data for current conditions"

\* an early return: the paragraph, and nothing computed
NoData(message) == [NoView EXCEPT !.notice = Some(message)]

\* !forecast || !forecast.forecast || forecast.forecast.length === 0
NoEntries(forecast) == IsNull(forecast) \/ forecast[1] = <<>>

\* !current || !current.physics
NoPhysics(forecast) == Len(forecast[1]) # 4

\* a component that falls back to the transform of an empty sample set
PhysicsView_RendersFallback(forecast, u) ==
    IF NoEntries(forecast) \/ NoPhysics(forecast)
    THEN Render(<<>>, Null, Zero, Zero, u)
    ELSE Render(forecast[1][1], forecast[1][2], forecast[1][3], forecast[1][4], u)

PhysicsView(forecast, u) ==
    IF NoEntries(forecast) THEN NoData(NoPhysicsData)
    ELSE IF NoPhysics(forecast) THEN NoData(NoCurrentPhysics)
    ELSE Render(forecast[1][1], forecast[1][2], forecast[1][3], forecast[1][4], u)

(***************************************************************************)
(* The inputs of the model                                                 *)
(***************************************************************************)
MaxSamples == 2

\* the shore, a point of the bathymetry grid, a point beyond MAX_DISTANCE_M
DistVals == {I(0), I(76), I(200)}

\* <<h, H>>: a breaking ratio (0.9), a non-breaking one (0.2), a zero depth
DepthHeightVals == {<<I(1), R(9, 10)>>, <<I(5), I(1)>>, <<I(0), R(1, 2)>>}

SpeedVals == {I(5)}

Samples ==
    {[x |-> x, h |-> hH[1], H |-> hH[2], c |-> c] :
        x \in DistVals, hH \in DepthHeightVals, c \in SpeedVals}

Paths == UNION {[1..n -> Samples] : n \in 0..MaxSamples}

DefaultDistVals == {Null, Some(I(80))}

PeriodVals == {Zero}

TideVals == {Zero}

\* the page shows its main view: Home passes its three early returns
Displayed == ~loading /\ error = <<>> /\ forecastData # <<>>

\* a forecast has arrived, no request is in flight
Loaded ==
    /\ forecastData = <<inputs>>
    /\ loading = FALSE
    /\ error = <<>>
    /\ pending = {}
    /\ lastStarted = [caller |-> "mount", response |-> <<inputs>>]

Init ==
    /\ shoalingPath \in Paths
    /\ distance_from_shore_m \in DefaultDistVals
    /\ period_s \in PeriodVals
    /\ tideLevel \in TideVals
    /\ Loaded
    /\ units = "imperial"
    /\ showPhysics = FALSE
    /\ breakingPointFromPhysics = NoView.breakingPointFromPhysics
    /\ breakingDistM = NoView.breakingDistM
    /\ bathymetryFromPhysics = NoView.bathymetryFromPhysics
    /\ bathymetryData = NoView.bathymetryData
    /\ waveEnvelopeData = NoView.waveEnvelopeData
    /\ surfaceSteps = NoView.surfaceSteps
    /\ waveShapeData = NoView.waveShapeData
    /\ notice = NoView.notice

\* index.tsx: the "physics" button of the main view opens or closes the panel
TogglePhysics ==
    /\ Displayed
    /\ showPhysics' = ~showPhysics
    /\ \E view \in {IF showPhysics THEN NoView
                    ELSE Render(shoalingPath, distance_from_shore_m, period_s,
                                tideLevel, units)} : Shown(view)
    /\ UNCHANGED <<inputs, units, page>>

\* the unit system changes and the sequences of the last render are kept
toggleUnits_Stale ==
    /\ units' = IF units = "metric" THEN "imperial" ELSE "metric"
    /\ UNCHANGED <<inputs, showPhysics, page, breakingPointFromPhysics, breakingDistM,
                   bathymetryFromPhysics, bathymetryData, waveEnvelopeData,
                   surfaceSteps, waveShapeData, notice>>

\* UnitContext.toggleUnits; a mounted PhysicsView renders again
toggleUnits ==
    /\ units' = IF units = "metric" THEN "imperial" ELSE "metric"
    /\ \E view \in {IF showPhysics /\ Displayed
                    THEN Render(shoalingPath, distance_from_shore_m, period_s,
                                tideLevel, units')
                    ELSE NoView} : Shown(view)
    /\ UNCHANGED <<inputs, showPhysics, page>>

Next == TogglePhysics \/ toggleUnits

Spec == Init /\ [][Next]_vars

(***************************************************************************)
(* The forecast requests of the page (index.tsx, fetchForecast)            *)
(***************************************************************************)
\* who called fetchForecast: the mount effect, the 10-minute interval, Retry.
\* At most one call of each caller is in flight.
Callers == {"mount", "interval", "retry"}

\* err.message of a network error, of a non-OK status, of a JSON parse failure
ErrorMessages == {"Failed to fetch", "Failed: 500", "Unexpected token"}

TideLevels == {I(0 - 1), Zero, I(1)}

\* the forecasts the server answers with: <<samples, distance, period, tide>>
FetchedForecasts ==
    {<<path, Null, Zero, tide>> :
        path \in {<<>>, <<[x |-> I(76), h |-> I(1), H |-> R(9, 10), c |-> I(5)]>>},
        tide \in TideLevels}

\* fetchForecast up to its await: setLoading(true), setError(null), fetch(...)
StartFetch(caller) ==
    /\ caller \notin pending
    /\ loading' = TRUE
    /\ error' = Null
    /\ pending' = pending \cup {caller}
    /\ lastStarted' = [caller |-> caller, response |-> Null]
    /\ Shown(NoView)
    /\ UNCHANGED <<inputs, units, showPhysics, forecastData>>

\* setInterval(fetchForecast, 10 * 60 * 1000)
IntervalFetch == StartFetch("interval")

\* the Retry button of the error view
Retry ==
    /\ ~loading
    /\ error # Null
    /\ StartFetch("retry")

\* the response is OK and parses: setForecastData(...), then setLoading(false)
FetchSucceeds(caller) ==
    /\ caller \in pending
    /\ \E f \in FetchedForecasts :
          /\ forecastData' = Some(f)
          /\ lastStarted' = IF caller = lastStarted.caller
                            THEN [lastStarted EXCEPT !.response = Some(f)]
                            ELSE lastStarted
          /\ shoalingPath' = f[1]
          /\ distance_from_shore_m' = f[2]
          /\ period_s' = f[3]
          /\ tideLevel' = f[4]
          /\ \E view \in {IF showPhysics /\ error = Null
                          THEN Render(f[1], f[2], f[3], f[4], units)
                          ELSE NoView} : Shown(view)
    /\ loading' = FALSE
    /\ pending' = pending \ {caller}
    /\ UNCHANGED <<units, showPhysics, error>>

\* a failure that also drops the forecast received before
FetchFails_ClearsForecast(caller) ==
    /\ caller \in pending
    /\ \E message \in ErrorMessages : error' = Some(message)
    /\ loading' = FALSE
    /\ pending' = pending \ {caller}
    /\ forecastData' = Null
    /\ Shown(NoView)
    /\ UNCHANGED <<inputs, units, showPhysics, lastStarted>>

\* fetch rejects, the status is not OK, or json() rejects: setError(message),
\* then setLoading(false)
FetchFails(caller) ==
    /\ caller \in pending
    /\ \E message \in ErrorMessages : error' = Some(message)
    /\ loading' = FALSE
    /\ pending' = pending \ {caller}
    /\ Shown(NoView)
    /\ UNCHANGED <<inputs, units, showPhysics, forecastData, lastStarted>>

\* Home after its mount effect: no forecast yet, the first request in flight
InitFetch ==
    /\ shoalingPath = <<>>
    /\ distance_from_shore_m = Null
    /\ period_s = Zero
    /\ tideLevel = Zero
    /\ forecastData = Null
    /\ loading = TRUE
    /\ error = Null
    /\ pending = {"mount"}
    /\ lastStarted = [caller |-> "mount", response |-> Null]
    /\ units = "imperial"
    /\ showPhysics = FALSE
    /\ breakingPointFromPhysics = NoView.breakingPointFromPhysics
    /\ breakingDistM = NoView.breakingDistM
    /\ bathymetryFromPhysics = NoView.bathymetryFromPhysics
    /\ bathymetryData = NoView.bathymetryData
    /\ waveEnvelopeData = NoView.waveEnvelopeData
    /\ surfaceSteps = NoView.surfaceSteps
    /\ waveShapeData = NoView.waveShapeData
    /\ notice = NoView.notice

NextFetch ==
    \/ TogglePhysics
    \/ toggleUnits
    \/ IntervalFetch
    \/ Retry
    \/ \E caller \in Callers : FetchSucceeds(caller)
    \/ \E caller \in Callers : FetchFails(caller)

SpecFetch == InitFetch /\ [][NextFetch]_vars

(***************************************************************************)
(* The wave surface on close samples of several phase speeds               *)
(***************************************************************************)
\* a breaking sample, a non-breaking one a fifth of a metre seaward with phase
\* speed 0 (counted as missing), 5 or 8, and a sample of zero wave height
WaveSamples ==
    {[x |-> I(76), h |-> I(1), H |-> R(9, 10), c |-> c] : c \in {I(0), I(5), I(8)}}
    \cup {[x |-> R(381, 5), h |-> I(5), H |-> I(1), c |-> c] : c \in {I(0), I(5), I(8)}}
    \cup {[x |-> I(152), h |-> I(5), H |-> Zero, c |-> I(5)]}

WavePaths == UNION {[1..n -> WaveSamples] : n \in 1..MaxSamples}

\* no period in the forecast entry (0), or 8 s
WavePeriods == {Zero, I(8)}

InitWave ==
    /\ shoalingPath \in WavePaths
    /\ distance_from_shore_m = Null
    /\ period_s \in WavePeriods
    /\ tideLevel = Zero
    /\ Loaded
    /\ units = "imperial"
    /\ showPhysics = FALSE
    /\ breakingPointFromPhysics = NoView.breakingPointFromPhysics
    /\ breakingDistM = NoView.breakingDistM
    /\ bathymetryFromPhysics = NoView.bathymetryFromPhysics
    /\ bathymetryData = NoView.bathymetryData
    /\ waveEnvelopeData = NoView.waveEnvelopeData
    /\ surfaceSteps = NoView.surfaceSteps
    /\ waveShapeData = NoView.waveShapeData
    /\ notice = NoView.notice

SpecWave == InitWave /\ [][Next]_vars

(***************************************************************************)
(* Samples with missing fields                                             *)
(***************************************************************************)
\* a breaking sample without phase speed, a sample without depth, one without
\* distance, one without wave height, and two complete samples, one of them at
\* the shore
PartialSamples ==
    {[x |-> I(76), h |-> I(1), H |-> R(9, 10), c |-> Missing],
     [x |-> I(76), h |-> Missing, H |-> I(1), c |-> I(5)],
     [x |-> Missing, h |-> I(5), H |-> I(1), c |-> I(5)],
     [x |-> I(152), h |-> I(5), H |-> Missing, c |-> I(5)],
     [x |-> I(152), h |-> I(5), H |-> I(1), c |-> I(5)],
     [x |-> I(0), h |-> I(1), H |-> R(1, 2), c |-> I(5)]}

PartialPaths == UNION {[1..n -> PartialSamples] : n \in 1..MaxSamples}

InitMissing ==
    /\ shoalingPath \in PartialPaths
    /\ distance_from_shore_m = Null
    /\ period_s = Zero
    /\ tideLevel = Zero
    /\ Loaded
    /\ units = "imperial"
    /\ showPhysics = FALSE
    /\ breakingPointFromPhysics = NoView.breakingPointFromPhysics
    /\ breakingDistM = NoView.breakingDistM
    /\ bathymetryFromPhysics = NoView.bathymetryFromPhysics
    /\ bathymetryData = NoView.bathymetryData
    /\ waveEnvelopeData = NoView.waveEnvelopeData
    /\ surfaceSteps = NoView.surfaceSteps
    /\ waveShapeData = NoView.waveShapeData
    /\ notice = NoView.notice

SpecMissing == InitMissing /\ [][Next]_vars

(***************************************************************************)
(* PhysicsView under any forecast prop                                     *)
(***************************************************************************)
\* no forecast, a forecast with no entry, a first entry without physics record
\* (with and without a period), and first entries with one
ForecastProps ==
    {Null, Some(<<>>), Some(<<Zero, Zero>>), Some(<<I(8), Zero>>)}
    \cup {Some(<<path, Null, Zero, Zero>>) : path \in PartialPaths}

\* the fields PhysicsView reads, where the forecast has them
FieldsOf(forecast) ==
    IF NoEntries(forecast) THEN <<<<>>, Null, Zero, Zero>>
    ELSE IF NoPhysics(forecast) THEN <<<<>>, Null, forecast[1][1], forecast[1][2]>>
    ELSE forecast[1]

InitProps ==
    /\ forecastData \in ForecastProps
    /\ shoalingPath = FieldsOf(forecastData)[1]
    /\ distance_from_shore_m = FieldsOf(forecastData)[2]
    /\ period_s = FieldsOf(forecastData)[3]
    /\ tideLevel = FieldsOf(forecastData)[4]
    /\ loading = FALSE
    /\ error = Null
    /\ pending = {}
    /\ lastStarted = [caller |-> "mount", response |-> forecastData]
    /\ units = "imperial"
    /\ showPhysics = FALSE
    /\ breakingPointFromPhysics = NoView.breakingPointFromPhysics
    /\ breakingDistM = NoView.breakingDistM
    /\ bathymetryFromPhysics = NoView.bathymetryFromPhysics
    /\ bathymetryData = NoView.bathymetryData
    /\ waveEnvelopeData = NoView.waveEnvelopeData
    /\ surfaceSteps = NoView.surfaceSteps
    /\ waveShapeData = NoView.waveShapeData
    /\ notice = NoView.notice

\* a parent mounts <PhysicsView forecast={forecastData} />, or unmounts it
MountPhysicsView ==
    /\ showPhysics' = ~showPhysics
    /\ \E view \in {IF showPhysics THEN NoView
                    ELSE PhysicsView(forecastData, units)} : Shown(view)
    /\ UNCHANGED <<inputs, units, page>>

\* useUnits() changes under a PhysicsView, which renders again when mounted
RenderInOtherUnits ==
    /\ units' = IF units = "metric" THEN "imperial" ELSE "metric"
    /\ \E view \in {IF showPhysics THEN PhysicsView(forecastData, units')
                    ELSE NoView} : Shown(view)
    /\ UNCHANGED <<inputs, showPhysics, page>>

NextProps == MountPhysicsView \/ RenderInOtherUnits

SpecProps == InitProps /\ [][NextProps]_vars

(***************************************************************************)
(* Vocabulary of the properties                                            *)
(***************************************************************************)
\* PhysicsView is mounted
Rendered == showPhysics /\ Displayed

NonEmpty == Len(shoalingPath) > 0

\* the samples with depth > 0 and waveHeight / depth >= 0.78
QualifyingSamples ==
    {i \in DOMAIN shoalingPath :
        /\ shoalingPath[i].h.n > 0
        /\ 100 * shoalingPath[i].H.n * shoalingPath[i].h.d
             >= 78 * shoalingPath[i].h.n * shoalingPath[i].H.d}

SampleDists == {shoalingPath[i].x : i \in DOMAIN shoalingPath}

SamplesAt(d) == {i \in DOMAIN shoalingPath : shoalingPath[i].x = d}

\* the largest sample distance <= x and the smallest sample distance >= x
DistsBelow(x) == {d \in SampleDists : RLe(d, x)}

DistsAbove(x) == {d \in SampleDists : RLe(x, d)}

Largest(S) == CHOOSE m \in S : \A d \in S : RLe(d, m)

Smallest(S) == CHOOSE m \in S : \A d \in S : RLe(m, d)

\* v is what the linear rule gives at x for field f ("h" or "H"): between two
\* bounding samples at d1 < d2 it is v1 + (v2 - v1) * (x - d1) / (d2 - d1); with
\* one bounding side only, the value of the bounding sample.  Where the bounds
\* coincide the rule says nothing.
LinearAt(x, f, v) ==
    LET below == DistsBelow(x)
        above == DistsAbove(x)
    IN  IF below = {} /\ above = {} THEN TRUE
        ELSE IF below = {} THEN \E i \in SamplesAt(Smallest(above)) : v = shoalingPath[i][f]
        ELSE IF above = {} THEN \E i \in SamplesAt(Largest(below)) : v = shoalingPath[i][f]
        ELSE LET d1 == Largest(below)
                 d2 == Smallest(above)
             IN  IF d1 = d2 THEN TRUE
                 ELSE \E i1 \in SamplesAt(d1), i2 \in SamplesAt(d2) :
                        LET v1 == shoalingPath[i1][f]
                            v2 == shoalingPath[i2][f]
                        IN  v = RAdd(v1, RDiv(RMul(RSub(v2, v1), RSub(x, d1)),
                                              RSub(d2, d1)))

\* the distances of the bathymetry grid, i / 20 * 152 for i = 0..20
GridDists == {R(152 * i, 20) : i \in 0..20}

\* the envelope point e shows the wave height H
ShowsHeight(e, H) ==
    IF RLt(Zero, H)
    THEN e.waveTroughY = Some(convertHeight(Plain(RDiv(H, I(2))), units))
    ELSE e.waveTroughY = Null

IsSortedAscending(seq) ==
    \A j \in 1..(Len(seq) - 1) : DLe(seq[j].x, seq[j + 1].x)

ShownDistance(x_m) == convertDistance(Plain(x_m), units)

(***************************************************************************)
(* C1.  Breaking-point detection returns a sample of the largest distance  *)
(* among those with depth > 0 and waveHeight / depth >= 0.78, and returns  *)
(* no breaking point exactly when no sample qualifies.                     *)
(***************************************************************************)
C1_BreakingPointIsOffshoreMostQualifying ==
    Rendered =>
        IF QualifyingSamples = {} THEN IsNull(breakingPointFromPhysics)
        ELSE /\ ~IsNull(breakingPointFromPhysics)
             /\ \E i \in QualifyingSamples :
                  /\ \A j \in QualifyingSamples :
                        RLe(shoalingPath[j].x, shoalingPath[i].x)
                  /\ breakingPointFromPhysics[1].x = shoalingPath[i].x
                  /\ breakingPointFromPhysics[1].h = shoalingPath[i].h
                  /\ breakingPointFromPhysics[1].H = shoalingPath[i].H

\* two samples qualify at different distances, the nearer one first in the input
C1_Witness ==
    /\ Rendered
    /\ \E i, j \in QualifyingSamples :
          i < j /\ RLt(shoalingPath[i].x, shoalingPath[j].x)
    /\ ~IsNull(breakingPointFromPhysics)

(***************************************************************************)
(* C2.  Interpolation is linear between the bounding samples: the depth of *)
(* every bathymetry grid point, the wave height of every envelope point    *)
(* and of every surface step follow the linear rule, and with one bounding *)
(* sample only the value of that sample is returned.                       *)
(***************************************************************************)
C2_InterpolationIsLinear ==
    (Rendered /\ NonEmpty) =>
        /\ \A j \in DOMAIN bathymetryFromPhysics :
              RLe(Zero, bathymetryFromPhysics[j].x) =>
                 LinearAt(bathymetryFromPhysics[j].x, "h", bathymetryFromPhysics[j].h)
        /\ \A j \in DOMAIN surfaceSteps :
              LinearAt(surfaceSteps[j].x_m, "H", surfaceSteps[j].H_surf_m)
        /\ \A j \in DOMAIN waveEnvelopeData :
              \E x \in GridDists :
                 /\ waveEnvelopeData[j].x = ShownDistance(x)
                 /\ \/ DistsBelow(x) # {} /\ DistsAbove(x) # {}
                       /\ Largest(DistsBelow(x)) = Smallest(DistsAbove(x))
                    \/ \E i1, i2 \in DOMAIN shoalingPath :
                          \E H \in {shoalingPath[i1].H, shoalingPath[i2].H,
                                    RAdd(shoalingPath[i1].H,
                                         RDiv(RMul(RSub(shoalingPath[i2].H, shoalingPath[i1].H),
                                                   RSub(x, shoalingPath[i1].x)),
                                              RSub(shoalingPath[i2].x, shoalingPath[i1].x)))} :
                             LinearAt(x, "H", H) /\ ShowsHeight(waveEnvelopeData[j], H)

\* a grid point strictly between two samples of different depth, and a grid
\* point beyond every sample
C2_Witness ==
    /\ Rendered
    /\ \E j \in DOMAIN bathymetryFromPhysics, i1, i2 \in DOMAIN shoalingPath :
          /\ RLt(shoalingPath[i1].x, bathymetryFromPhysics[j].x)
          /\ RLt(bathymetryFromPhysics[j].x, shoalingPath[i2].x)
          /\ shoalingPath[i1].h # shoalingPath[i2].h
          /\ bathymetryFromPhysics[j].h # shoalingPath[i1].h
          /\ bathymetryFromPhysics[j].h # shoalingPath[i2].h
    /\ \E j \in DOMAIN surfaceSteps, i1, i2 \in DOMAIN shoalingPath :
          /\ RLt(shoalingPath[i1].x, surfaceSteps[j].x_m)
          /\ RLt(surfaceSteps[j].x_m, shoalingPath[i2].x)
          /\ shoalingPath[i1].H # shoalingPath[i2].H

(***************************************************************************)
(* C3.  Interpolation is exact at sample points: at the distance of any    *)
(* sample i, whatever the order of the samples and whether or not they     *)
(* share distances, the interpolated depth and wave height are sample i's. *)
(***************************************************************************)
ExactAt(i) ==
    /\ h_interp(shoalingPath, shoalingPath[i].x) = shoalingPath[i].h
    /\ H_interp(shoalingPath, shoalingPath[i].x) = shoalingPath[i].H
    /\ \A j \in DOMAIN bathymetryFromPhysics :
          bathymetryFromPhysics[j].x = shoalingPath[i].x =>
             bathymetryFromPhysics[j].h = shoalingPath[i].h
    /\ \A j \in DOMAIN surfaceSteps :
          surfaceSteps[j].x_m = shoalingPath[i].x =>
             surfaceSteps[j].H_surf_m = shoalingPath[i].H

C3_ExactAtEverySample ==
    Rendered => \A i \in DOMAIN shoalingPath : ExactAt(i)

\* C3 as it holds: interpolation is exact at every sample whose distance no
\* other sample shares
C3_ExactAtUniqueDistances ==
    Rendered =>
        \A i \in DOMAIN shoalingPath :
            SamplesAt(shoalingPath[i].x) = {i} => ExactAt(i)

\* two samples out of order, of different depth and height, each hit by a
\* bathymetry grid point and one by a surface step
C3_Witness ==
    /\ Rendered
    /\ Len(shoalingPath) = 2
    /\ RLt(shoalingPath[1].x, shoalingPath[2].x)
    /\ shoalingPath[1].h # shoalingPath[2].h
    /\ shoalingPath[1].H # shoalingPath[2].H
    /\ \A i \in DOMAIN shoalingPath :
          \E j \in DOMAIN bathymetryFromPhysics :
             bathymetryFromPhysics[j].x = shoalingPath[i].x
    /\ \E j \in DOMAIN surfaceSteps : surfaceSteps[j].x_m = shoalingPath[2].x

(***************************************************************************)
(* C4.  For every non-empty sample set the wave surface has exactly one    *)
(* point at the breaking distance, and its elevation is the crest value    *)
(* -(wave height at breaking) / 2.                                         *)
(***************************************************************************)
C4_OneCrestAtBreakingDistance ==
    (Rendered /\ NonEmpty) =>
        LET at == {j \in DOMAIN waveShapeData :
                      waveShapeData[j].x = ShownDistance(breakingDistM)}
        IN  /\ Cardinality(at) = 1
            /\ ~IsNull(breakingPointFromPhysics) =>
                  \A j \in at :
                     waveShapeData[j].y =
                        DNeg(convertHeight(
                               Plain(RDiv(breakingPointFromPhysics[1].H, I(2))), units))

(***************************************************************************)
(* C5.  bathymetryData, waveEnvelopeData and waveShapeData are sorted      *)
(* ascending by distance, for every input order and whether or not a       *)
(* breaking point was detected.                                            *)
(***************************************************************************)
C5_OutputsSortedAscending ==
    Rendered =>
        /\ IsSortedAscending(bathymetryData)
        /\ IsSortedAscending(waveEnvelopeData)
        /\ IsSortedAscending(waveShapeData)

(***************************************************************************)
(* C6.  For any non-empty sample set the distances of the bathymetry       *)
(* sequence span exactly [0, 152 m]: the minimum is 0 and the maximum is   *)
(* 152 m, wherever and whether breaking occurs.                            *)
(***************************************************************************)
C6_BathymetrySpansFullExtent ==
    (Rendered /\ NonEmpty) =>
        /\ \A j \in DOMAIN bathymetryData :
              /\ DLe(DZero, bathymetryData[j].x)
              /\ DLe(bathymetryData[j].x, ShownDistance(I(152)))
        /\ \E j \in DOMAIN bathymetryData : bathymetryData[j].x = DZero
        /\ \E j \in DOMAIN bathymetryData : bathymetryData[j].x = ShownDistance(I(152))

\* breaking is detected strictly inside the extent
C6_Witness ==
    /\ Rendered
    /\ ~IsNull(breakingPointFromPhysics)
    /\ RLt(Zero, breakingDistM)
    /\ RLt(breakingDistM, I(152))
    /\ Len(bathymetryData) > 2

(***************************************************************************)
(* C7.  The wave envelope never extends past the breaking point: with a    *)
(* breaking distance > 0 every envelope distance lies in                   *)
(* [0, breakingDistance]; and every envelope distance is a distance of the *)
(* bathymetry sequence.                                                    *)
(***************************************************************************)
C7_EnvelopeWithinBreaking ==
    Rendered =>
        /\ RLt(Zero, breakingDistM) =>
              \A j \in DOMAIN waveEnvelopeData :
                 /\ DLe(DZero, waveEnvelopeData[j].x)
                 /\ DLe(waveEnvelopeData[j].x, ShownDistance(breakingDistM))
        /\ {waveEnvelopeData[j].x : j \in DOMAIN waveEnvelopeData}
              \subseteq {bathymetryData[j].x : j \in DOMAIN bathymetryData}

\* a breaking distance inside the extent cuts the envelope short of the
\* bathymetry
C7_Witness ==
    /\ Rendered
    /\ RLt(Zero, breakingDistM)
    /\ RLt(breakingDistM, I(152))
    /\ Len(waveEnvelopeData) > 1
    /\ Len(waveEnvelopeData) < Len(bathymetryData)

(***************************************************************************)
(* C8.  Every wave-surface distance lies in [0, 152 m], for every sample   *)
(* set and every breaking distance, one larger than 152 m included.        *)
(***************************************************************************)
C8_SurfaceWithinBathymetry ==
    Rendered =>
        \A j \in DOMAIN waveShapeData :
            /\ DLe(DZero, waveShapeData[j].x)
            /\ DLe(waveShapeData[j].x, ShownDistance(I(152)))

(***************************************************************************)
(* C9.  Whenever a breaking point is detected, the breaking distance in    *)
(* use is the detected sample's distance, a detected sample at distance 0  *)
(* included; the external default serves only when nothing is detected.    *)
(***************************************************************************)
C9_DetectedDistanceIsUsed ==
    (Rendered /\ ~IsNull(breakingPointFromPhysics)) =>
        breakingDistM = breakingPointFromPhysics[1].x

(***************************************************************************)
(* C10.  On well-formed samples no division of the transform has a zero    *)
(* denominator: interpolation divides only across differing distances,     *)
(* H / h is evaluated only at depth > 0 (a zero-depth sample is never the  *)
(* breaking point), and the reference wavelength is never zero.            *)
(***************************************************************************)
C10_NoZeroDenominator ==
    Rendered =>
        /\ \A d \in Denominators(shoalingPath, distance_from_shore_m, period_s, tideLevel) :
              d.n # 0 /\ d.d # 0
        /\ ~IsNull(breakingPointFromPhysics) =>
              RLt(Zero, breakingPointFromPhysics[1].h)

\* a zero-depth sample whose wave height is positive, next to a sample at
\* another distance, with a breaking point detected
C10_Witness ==
    /\ Rendered
    /\ \E i, j \in DOMAIN shoalingPath :
          /\ shoalingPath[i].h = Zero
          /\ RLt(Zero, shoalingPath[i].H)
          /\ shoalingPath[i].x # shoalingPath[j].x
    /\ ~IsNull(breakingPointFromPhysics)

(***************************************************************************)
(* C11.  With an empty sample set the transform builds the constant-slope  *)
(* bathymetry: at each of the 21 grid distances x the depth is             *)
(* x * 0.03 + tide, for every tide level, negative ones included.          *)
(***************************************************************************)
C11_FallbackIsConstantSlope ==
    (Rendered /\ shoalingPath = <<>>) =>
        \A x \in GridDists :
            \E j \in DOMAIN bathymetryFromPhysics :
                /\ bathymetryFromPhysics[j].x = x
                /\ bathymetryFromPhysics[j].h = RAdd(RMul(x, R(3, 100)), tideLevel)

(***************************************************************************)
(* C12.  The wave envelope always contains a point at distance 0, for      *)
(* every sample set and every breaking distance.                           *)
(***************************************************************************)
C12_EnvelopeHasShorePoint ==
    Rendered => \E j \in DOMAIN waveEnvelopeData : waveEnvelopeData[j].x = DZero

\* an envelope cut at a breaking distance inside the extent, the shore first
C12_Witness ==
    /\ Rendered
    /\ NonEmpty
    /\ RLt(Zero, breakingDistM)
    /\ RLt(breakingDistM, I(152))
    /\ Len(waveEnvelopeData) > 1
    /\ waveEnvelopeData[1].x = DZero
    /\ waveEnvelopeData[1].waveTroughY # Null

(***************************************************************************)
(* C13.  A forecast fetch that fails ends in a retryable failure state     *)
(* (error non-null, loading false); Retry starts a new fetch that first    *)
(* clears the error and sets loading; and a successful response to it      *)
(* leaves error null, loading false and the new forecast displayed.        *)
(***************************************************************************)
C13_FailureIsRetryable ==
    [][/\ \A caller \in Callers :
             FetchFails(caller) => (error' # Null /\ loading' = FALSE)
       /\ Retry => (error' = Null /\ loading' = TRUE /\ "retry" \in pending')
       /\ FetchSucceeds("retry") => (error' = Null /\ loading' = FALSE /\ Displayed')
      ]_vars

SignOf(v) == Sgn(v.q.n)

C15_ProjectionKeepsSigns ==
    Rendered =>
        /\ \A j \in DOMAIN waveEnvelopeData :
              /\ waveEnvelopeData[j].waveCrestY # Null =>
                    SignOf(waveEnvelopeData[j].waveCrestY[1]) <= 0
              /\ waveEnvelopeData[j].waveTroughY # Null =>
                    SignOf(waveEnvelopeData[j].waveTroughY[1]) >= 0
        /\ \A j \in DOMAIN waveShapeData :
              \/ \E i \in DOMAIN surfaceSteps :
                    /\ waveShapeData[j].x = ShownDistance(surfaceSteps[i].x_m)
                    /\ SignOf(waveShapeData[j].y) = Sgn(surfaceSteps[i].y_m.n)
              \/ /\ ~IsNull(breakingPointFromPhysics)
                 /\ DLt(DAbs(DSub(waveShapeData[j].x, ShownDistance(breakingDistM))), Tenth)
                 /\ SignOf(waveShapeData[j].y) = 0 - Sgn(breakingPointFromPhysics[1].H.n)

\* imperial units, a surface with elevations of both signs and an envelope
\* with a crest and a trough
C15_Witness ==
    /\ Rendered
    /\ units = "imperial"
    /\ \E j \in DOMAIN waveShapeData : SignOf(waveShapeData[j].y) < 0
    /\ \E j \in DOMAIN waveShapeData : SignOf(waveShapeData[j].y) > 0
    /\ \E j \in DOMAIN waveEnvelopeData :
          /\ waveEnvelopeData[j].waveCrestY # Null
          /\ waveEnvelopeData[j].waveTroughY # Null

(***************************************************************************)
(* C16.  The unit projector is idempotent: in each unit system, applying   *)
(* convertHeight or convertDistance to an already converted value returns  *)
(* that same value.                                                        *)
(***************************************************************************)
\* the converted values on display: every distance and elevation of the three
\* sequences
DisplayedValues ==
    {bathymetryData[j].x : j \in DOMAIN bathymetryData}
    \cup {bathymetryData[j].bathymetryY : j \in DOMAIN bathymetryData}
    \cup {waveEnvelopeData[j].x : j \in DOMAIN waveEnvelopeData}
    \cup UNION {{waveEnvelopeData[j].waveTroughY[i] :
                    i \in DOMAIN waveEnvelopeData[j].waveTroughY} :
                j \in DOMAIN waveEnvelopeData}
    \cup {waveShapeData[j].x : j \in DOMAIN waveShapeData}
    \cup {waveShapeData[j].y : j \in DOMAIN waveShapeData}

C16_ProjectorIsIdempotent ==
    Rendered =>
        \A v \in DisplayedValues :
            convertHeight(v, units) = v /\ convertDistance(v, units) = v

\* C16 as it holds: the projector is the identity, hence idempotent, in the
\* metric system; in the imperial system each application multiplies by
\* 3.28084 (one more factor in the pair [q, k]), so a converted value is
\* returned unchanged only when it is 0; and the transform applies the
\* projector exactly once to each value it displays.
C16_ProjectorScalesOnce ==
    Rendered =>
        \A v \in DisplayedValues :
            /\ v.k = IF units = "imperial" /\ v # DZero THEN 1 ELSE 0
            /\ convertHeight(v, "metric") = v
            /\ convertDistance(v, "metric") = v
            /\ v # DZero =>
                  /\ convertHeight(v, "imperial") = [q |-> v.q, k |-> v.k + 1]
                  /\ convertDistance(v, "imperial") = [q |-> v.q, k |-> v.k + 1]
            /\ (convertHeight(v, "imperial") = v) <=> (v = DZero)
            /\ (convertDistance(v, "imperial") = v) <=> (v = DZero)

\* imperial units, a zero and a nonzero value on display
C16_Witness ==
    /\ Rendered
    /\ units = "imperial"
    /\ DZero \in DisplayedValues
    /\ \E v \in DisplayedValues : DLt(DZero, v)
    /\ \E v \in DisplayedValues : DLt(v, DZero)

(***************************************************************************)
(* C17.  For a non-empty sample set the bathymetry sequence produced for   *)
(* rendering consists of the 21 points x_i = i / 20 * 152, i = 0..20, plus *)
(* exactly one anchor point at a negative distance with a negative depth,  *)
(* (-6 m, -1.5 m).                                                         *)
(***************************************************************************)
\* seq, with distances and depths read by X and Y, is the grid plus the anchor
GridPlusAnchor(seq, xs, ys, anchorX, anchorY) ==
    /\ Len(seq) = 22
    /\ \A i \in 0..20 :
          Cardinality({j \in DOMAIN seq : xs[j] = R(152 * i, 20)}) = 1
    /\ Cardinality({j \in DOMAIN seq : xs[j] = anchorX /\ ys[j] = anchorY}) = 1

C17_RenderedBathymetryHasAnchor ==
    (Rendered /\ NonEmpty) =>
        /\ GridPlusAnchor(bathymetryFromPhysics,
                          [j \in DOMAIN bathymetryFromPhysics |-> bathymetryFromPhysics[j].x],
                          [j \in DOMAIN bathymetryFromPhysics |-> bathymetryFromPhysics[j].h],
                          I(0 - 6), R(0 - 3, 2))
        /\ Len(bathymetryData) = 22
        /\ \A i \in 0..20 :
              Cardinality({j \in DOMAIN bathymetryData :
                              bathymetryData[j].x = ShownDistance(R(152 * i, 20))}) = 1
        /\ Cardinality({j \in DOMAIN bathymetryData :
                           /\ bathymetryData[j].x = ShownDistance(I(0 - 6))
                           /\ bathymetryData[j].bathymetryY
                                 = convertHeight(Plain(R(0 - 3, 2)), units)}) = 1

(***************************************************************************)
(* C18.  For every envelope point with interpolated wave height H, the     *)
(* trough elevation is +H/2, and the crest elevation -H/2 is present       *)
(* exactly when H > 0.                                                     *)
(***************************************************************************)
C18_TroughAlwaysCrestWhenPositive ==
    (Rendered /\ NonEmpty) =>
        \A j \in DOMAIN waveEnvelopeData :
            \E x \in GridDists :
                /\ waveEnvelopeData[j].x = ShownDistance(x)
                /\ \E H \in {H_interp(shoalingPath, x)} :
                      /\ waveEnvelopeData[j].waveTroughY
                            = Some(convertHeight(Plain(RDiv(H, I(2))), units))
                      /\ (waveEnvelopeData[j].waveCrestY # Null) <=> RLt(Zero, H)
                      /\ waveEnvelopeData[j].waveCrestY # Null =>
                            waveEnvelopeData[j].waveCrestY
                               = Some(DNeg(convertHeight(Plain(RDiv(H, I(2))), units)))

(***************************************************************************)
(* C19.  One fixed reference wavelength serves every surface point of a    *)
(* curve: L_ref = (phase speed of the detected breaking sample) * period   *)
(* when a breaking point is detected, else (mean phase speed over all      *)
(* samples, a missing one counted as 10.0) * period, the period defaulting *)
(* to 11 s; every step of the surface uses k_ref = 2*pi / L_ref.           *)
(***************************************************************************)
\* the phase speed of sample i, 10 when it is missing
SpeedOf(i) == IF shoalingPath[i].c = Zero THEN I(10) ELSE shoalingPath[i].c

RECURSIVE SpeedSum(_)
SpeedSum(n) == IF n = 0 THEN Zero ELSE RAdd(SpeedSum(n - 1), SpeedOf(n))

WavePeriod == IF period_s = Zero THEN I(11) ELSE period_s

L_ref ==
    IF ~IsNull(breakingPointFromPhysics)
    THEN RMul(breakingPointFromPhysics[1].c, WavePeriod)
    ELSE RMul(RDiv(SpeedSum(Len(shoalingPath)), I(Len(shoalingPath))), WavePeriod)

C19_OneReferenceWavelength ==
    (Rendered /\ NonEmpty) =>
        /\ ~IsNull(breakingPointFromPhysics) =>
              \E i \in QualifyingSamples :
                 /\ shoalingPath[i].x = breakingPointFromPhysics[1].x
                 /\ SpeedOf(i) = breakingPointFromPhysics[1].c
        /\ \A j \in DOMAIN surfaceSteps :
              surfaceSteps[j].y_m =
                 RNeg(RMul(RDiv(surfaceSteps[j].H_surf_m, I(2)),
                           SinTurns(RAdd(RDiv(RSub(surfaceSteps[j].x_m, breakingDistM),
                                              L_ref),
                                         R(1, 4)))))

\* a detected breaking sample whose phase speed differs from the mean, a
\* period of 8 s, and a step of the surface off the water line
C19_Witness ==
    /\ Rendered
    /\ ~IsNull(breakingPointFromPhysics)
    /\ \E i \in DOMAIN shoalingPath : SpeedOf(i) # breakingPointFromPhysics[1].c
    /\ \E i \in DOMAIN shoalingPath : shoalingPath[i].c = Zero
    /\ period_s = I(8)
    /\ \E j \in DOMAIN surfaceSteps :
          surfaceSteps[j].y_m # Zero /\ surfaceSteps[j].x_m # breakingDistM

\* no breaking point: the mean of two different phase speeds, the default period
C19_WitnessMean ==
    /\ Rendered
    /\ IsNull(breakingPointFromPhysics)
    /\ \E i, k \in DOMAIN shoalingPath : SpeedOf(i) # SpeedOf(k)
    /\ period_s = Zero
    /\ \E j \in DOMAIN surfaceSteps : surfaceSteps[j].y_m # Zero

(***************************************************************************)
(* C20.  When a breaking point is detected, the forced-crest step either   *)
(* inserts one new point at exactly the breaking distance or overwrites    *)
(* the elevation of the generated point nearest to the breaking distance;  *)
(* every other generated point keeps its distance and elevation.           *)
(***************************************************************************)
ShownElevation(y_m) ==
    IF RLt(y_m, Zero) THEN DNeg(convertHeight(Plain(RAbs(y_m)), units))
    ELSE convertHeight(Plain(y_m), units)

\* the points the surface loop generated, in display units
GeneratedPoints ==
    [j \in DOMAIN surfaceSteps |->
        [x |-> ShownDistance(surfaceSteps[j].x_m),
         y |-> ShownElevation(surfaceSteps[j].y_m)]]

\* how often each point occurs in seq
BagOf(seq) ==
    [e \in {seq[j] : j \in DOMAIN seq} |->
        Cardinality({j \in DOMAIN seq : seq[j] = e})]

C20_ForcedCrestTouchesOnePoint ==
    (Rendered /\ NonEmpty /\ ~IsNull(breakingPointFromPhysics)) =>
        LET gen == GeneratedPoints
            bx == ShownDistance(breakingDistM)
            crest == ShownElevation(RNeg(RDiv(breakingPointFromPhysics[1].H, I(2))))
            Off(j) == DAbs(DSub(gen[j].x, bx))
        IN  \/ BagOf(waveShapeData) = BagOf(Append(gen, [x |-> bx, y |-> crest]))
            \/ \E n \in DOMAIN gen :
                  /\ \A m \in DOMAIN gen : DLe(Off(n), Off(m))
                  /\ BagOf(waveShapeData) = BagOf([gen EXCEPT ![n].y = crest])

(***************************************************************************)
(* C21.  For a non-empty sample set the synthesizer generates the          *)
(* numPoints + 1 positions x_i = startX + (endX - startX) * i / numPoints, *)
(* with startX = min(152 m, largest sample distance) and endX = the        *)
(* breaking distance (at least 0); every wave-surface distance lies in the *)
(* closed interval between startX and the breaking distance; and every     *)
(* generated position inside [0, max(breaking distance, 152 m)] is kept.   *)
(***************************************************************************)
OffshoreStart == RMin(I(152), Largest(SampleDists))

BreakingEnd == RMax(Zero, breakingDistM)

GridPosition(i) ==
    RAdd(OffshoreStart,
         RDiv(RMul(RSub(BreakingEnd, OffshoreStart), I(i)), I(numPoints)))

InValidDomain(x_m) ==
    /\ DLe(DZero, ShownDistance(x_m))
    /\ DLe(ShownDistance(x_m), ShownDistance(RMax(breakingDistM, I(152))))

\* C21: the grid positions, the interval of the surface distances, and no
\* discard inside the valid domain
C21_SurfaceGridAndDomain ==
    (Rendered /\ NonEmpty) =>
        /\ Len(surfaceSteps) = numPoints + 1
        /\ \A j \in DOMAIN surfaceSteps :
              surfaceSteps[j].x_m = GridPosition(j - 1)
        /\ \A k \in DOMAIN waveShapeData :
              /\ DLe(ShownDistance(RMin(OffshoreStart, BreakingEnd)), waveShapeData[k].x)
              /\ DLe(waveShapeData[k].x, ShownDistance(RMax(OffshoreStart, BreakingEnd)))
        /\ \A j \in DOMAIN surfaceSteps :
              InValidDomain(surfaceSteps[j].x_m) =>
                  \E k \in DOMAIN waveShapeData :
                      waveShapeData[k].x = ShownDistance(surfaceSteps[j].x_m)
        /\ Cardinality({j \in DOMAIN surfaceSteps : InValidDomain(surfaceSteps[j].x_m)})
              <= Len(waveShapeData)

\* a surface generated from the largest sample distance down to a detected
\* breaking distance short of it
C21_Witness ==
    /\ Rendered
    /\ ~IsNull(breakingPointFromPhysics)
    /\ RLt(BreakingEnd, OffshoreStart)
    /\ Len(waveShapeData) = numPoints + 1

(***************************************************************************)
(* C22.  Missing sample fields follow the default policy: a missing        *)
(* distance or wave height counts as 0, a missing phase speed as 10.0, and *)
(* a sample with a missing depth enters depth interpolation with the       *)
(* slope-based estimate 0.03 * its distance.                               *)
(***************************************************************************)
OrDefault(v, dflt) == IF v = Missing THEN dflt ELSE v

\* the samples with distance, wave height and phase speed filled in
WithDefaults ==
    [i \in DOMAIN shoalingPath |->
        [x |-> OrDefault(shoalingPath[i].x, Zero),
         h |-> shoalingPath[i].h,
         H |-> OrDefault(shoalingPath[i].H, Zero),
         c |-> OrDefault(shoalingPath[i].c, I(10))]]

\* the same samples with the depth estimate filled in as well
WithDepthEstimate ==
    [i \in DOMAIN shoalingPath |->
        [WithDefaults[i] EXCEPT
            !.h = OrDefault(@, RMul(R(3, 100), WithDefaults[i].x))]]

\* first half of C22: what is shown is what the samples with distance, wave
\* height and phase speed filled in give
C22_DistanceHeightSpeedDefaults ==
    Rendered =>
        \E view \in {Render(WithDefaults, distance_from_shore_m, period_s,
                            tideLevel, units)} :
            /\ breakingPointFromPhysics = view.breakingPointFromPhysics
            /\ breakingDistM = view.breakingDistM
            /\ bathymetryFromPhysics = view.bathymetryFromPhysics
            /\ waveEnvelopeData = view.waveEnvelopeData
            /\ waveShapeData = view.waveShapeData

\* second half of C22: the depths are those of the samples with the slope
\* estimate in place of a missing depth
C22_DepthEstimate ==
    Rendered =>
        bathymetryFromPhysics = BuildBathymetryFromPhysics(WithDepthEstimate, tideLevel)

\* C22: missing fields follow the default policy, in both halves
C22_MissingFieldsFollowDefaults ==
    C22_DistanceHeightSpeedDefaults /\ C22_DepthEstimate

(***************************************************************************)
(* C23.  The wave surface stays inside the local amplitude envelope: every *)
(* wave-surface point at distance x, the forced or overwritten crest       *)
(* included, has -H(x)/2 <= elevation <= H(x)/2, H(x) being the wave       *)
(* height linearly interpolated from the samples at x.                     *)
(***************************************************************************)
\* the wave heights the linear rule allows at x: one value between two
\* bounding distances that differ, the height of a sample at the bounding
\* distance otherwise
HeightsAt(x) ==
    LET below == DistsBelow(x)
        above == DistsAbove(x)
        d1 == Largest(below)
        d2 == Smallest(above)
    IN  IF below = {} THEN {shoalingPath[i].H : i \in SamplesAt(d2)}
        ELSE IF above = {} \/ d1 = d2 THEN {shoalingPath[i].H : i \in SamplesAt(d1)}
        ELSE {RAdd(shoalingPath[i1].H,
                   RDiv(RMul(RSub(shoalingPath[i2].H, shoalingPath[i1].H), RSub(x, d1)),
                        RSub(d2, d1))) :
                 i1 \in SamplesAt(d1), i2 \in SamplesAt(d2)}

\* the distances in metres a wave-surface point can come from
SurfaceDistances ==
    {surfaceSteps[j].x_m : j \in DOMAIN surfaceSteps} \cup {breakingDistM}

\* |y| <= H / 2, y a shown elevation and H a height in metres
WithinAmplitude(y, H) ==
    IF y.q.n = 0 THEN RLe(Zero, H)
    ELSE LET bound == ShownElevation(RDiv(H, I(2)))
         IN  y.k = bound.k /\ RLe(RAbs(y.q), bound.q)

\* C23: every wave-surface point lies within the interpolated amplitude
C23_SurfaceWithinEnvelope ==
    (Rendered /\ NonEmpty) =>
        \A k \in DOMAIN waveShapeData :
            \E x \in SurfaceDistances :
                /\ ShownDistance(x) = waveShapeData[k].x
                /\ \E H \in HeightsAt(x) : WithinAmplitude(waveShapeData[k].y, H)

(***************************************************************************)
(* C24.  The outputs do not depend on the order of the input samples: for  *)
(* any sample set, distances not necessarily unique, and any permutation   *)
(* of it, the detected breaking point, the bathymetry depths, the envelope *)
(* and the wave surface are identical.                                     *)
(***************************************************************************)
\* the samples in every order
Reorderings ==
    {[i \in DOMAIN shoalingPath |-> shoalingPath[f[i]]] :
        f \in {g \in [DOMAIN shoalingPath -> DOMAIN shoalingPath] :
                  \A i \in DOMAIN shoalingPath : \E j \in DOMAIN shoalingPath : g[j] = i}}

\* C24: every reordering of the samples gives what is shown
C24_OrderOfSamplesIsIrrelevant ==
    Rendered =>
        \A reordered \in Reorderings :
            \E view \in {Render(reordered, distance_from_shore_m, period_s,
                                tideLevel, units)} :
                /\ breakingPointFromPhysics = view.breakingPointFromPhysics
                /\ bathymetryFromPhysics = view.bathymetryFromPhysics
                /\ waveEnvelopeData = view.waveEnvelopeData
                /\ waveShapeData = view.waveShapeData

(***************************************************************************)
(* C25.  While any forecast fetch is in flight, loading is true: with      *)
(* overlapping fetches the completion of one never sets loading to false   *)
(* while another is still pending.                                         *)
(***************************************************************************)
C25_LoadingWhileFetchInFlight == (pending # {}) => loading

(***************************************************************************)
(* C26.  With overlapping fetches the outcome of an earlier-started fetch  *)
(* never overrides that of a later-started one: once the most recently     *)
(* started fetch has succeeded, forecastData is its response and error is  *)
(* null, in whatever order the responses arrive.                           *)
(***************************************************************************)
C26_LatestFetchWins ==
    (lastStarted.response # Null) =>
        /\ forecastData = lastStarted.response
        /\ error = Null

(***************************************************************************)
(* C27.  A failed fetch leaves forecastData unchanged: the forecast loaded *)
(* before is neither cleared nor modified.  A successful fetch replaces    *)
(* forecastData as a whole, by one forecast of the server, and never sets  *)
(* error.                                                                  *)
(***************************************************************************)
C27_FetchOutcomeFrames ==
    [][ /\ \A caller \in Callers :
              FetchFails(caller) => forecastData' = forecastData
        /\ \A caller \in Callers :
              FetchSucceeds(caller) =>
                  /\ \E f \in FetchedForecasts :
                        /\ forecastData' = Some(f)
                        /\ <<shoalingPath', distance_from_shore_m', period_s', tideLevel'>> = f
                  /\ error' = error ]_vars

\* a forecast that outlived a failed request: the error view is up and the
\* forecast received before is still held
C27_Witness ==
    /\ error # Null
    /\ forecastData # Null
    /\ ~loading
    /\ pending = {}

(***************************************************************************)
(* C28.  PhysicsView degrades without running the transform: when the      *)
(* forecast is missing, has an empty forecast list, or its first entry has *)
(* no physics record, it returns a no-data message and no bathymetry,      *)
(* breaking point, envelope or surface is computed.                        *)
(***************************************************************************)
NothingComputed ==
    /\ breakingPointFromPhysics = Null
    /\ bathymetryFromPhysics = <<>>
    /\ bathymetryData = <<>>
    /\ waveEnvelopeData = <<>>
    /\ surfaceSteps = <<>>
    /\ waveShapeData = <<>>

\* C28: a mounted PhysicsView without physics data shows its message and
\* computes nothing; with physics data it shows no such message
C28_DegradesWithoutTransform ==
    showPhysics =>
        /\ (forecastData = Null \/ forecastData = Some(<<>>)) =>
              (notice = Some("No physics data available") /\ NothingComputed)
        /\ (forecastData # Null /\ Len(forecastData[1]) = 2) =>
              (notice = Some("No physics data for current conditions") /\ NothingComputed)
        /\ (forecastData # Null /\ Len(forecastData[1]) = 4) =>
              (notice = Null /\ bathymetryFromPhysics # <<>>)

\* a PhysicsView mounted on a first entry without physics record
C28_Witness ==
    /\ showPhysics
    /\ forecastData = Some(<<I(8), Zero>>)
    /\ notice # Null
    /\ units = "metric"

(***************************************************************************)
(* C29.  For a non-empty sample set with numeric distances the search      *)
(* finds at least one bounding sample at every target distance of the      *)
(* bathymetry grid, so the slope-based estimate max(0, x * 0.03) of depth  *)
(* interpolation is never used.                                            *)
(***************************************************************************)
\* the search at x finds no sample on either side
Unbounded(x) ==
    IsNull(closestBefore(shoalingPath, x)) /\ IsNull(closestAfter(shoalingPath, x))

\* C29: no grid distance is left without a bounding sample, and every depth
\* of the grid is the one interpolation gives from its bounding samples
C29_SlopeEstimateIsNeverUsed ==
    (Rendered /\ NonEmpty) =>
        /\ \A x \in GridDists : ~Unbounded(x)
        /\ \A j \in DOMAIN bathymetryFromPhysics :
              RLe(Zero, bathymetryFromPhysics[j].x) =>
                  LinearAt(bathymetryFromPhysics[j].x, "h", bathymetryFromPhysics[j].h)

\* a grid that reaches beyond every sample and starts short of every sample:
\* targets with a bounding sample on one side only
C29_Witness ==
    /\ Rendered
    /\ NonEmpty
    /\ \E x \in GridDists : IsNull(closestBefore(shoalingPath, x))
    /\ \E x \in GridDists : IsNull(closestAfter(shoalingPath, x))

(***************************************************************************)
(* C30.  When a breaking point is detected, the wave surface depends on    *)
(* the sample phase speeds only through the breaking sample's: two sample  *)
(* sets that differ only in the phase speeds of non-breaking samples give  *)
(* identical wave-surface sequences; the phase speed interpolated at each  *)
(* point never reaches the output.                                         *)
(***************************************************************************)
\* the detected sample: of the qualifying samples at the largest distance,
\* the first in input order
BreakingIndex ==
    CHOOSE i \in QualifyingSamples :
        \A j \in QualifyingSamples :
            \/ RLt(shoalingPath[j].x, shoalingPath[i].x)
            \/ (shoalingPath[j].x = shoalingPath[i].x /\ i <= j)

OtherSpeeds == {I(0), I(3), I(8)}

\* the sample sets that differ from the samples in the phase speeds of
\* non-breaking samples only
SpeedVariants ==
    {[i \in DOMAIN shoalingPath |->
         IF i = BreakingIndex THEN shoalingPath[i]
         ELSE [shoalingPath[i] EXCEPT !.c = speeds[i]]] :
        speeds \in [DOMAIN shoalingPath -> OtherSpeeds]}

\* C30: every such sample set gives the wave surface that is shown
C30_SurfaceIgnoresOtherSpeeds ==
    (Rendered /\ ~IsNull(breakingPointFromPhysics)) =>
        \A variant \in SpeedVariants :
            LET bp == DetectBreakingPoint(variant)
                bd == ComputeBreakingDistM(bp, distance_from_shore_m)
                bdDisplay == ComputeBreakingDistDisplay(bd, distance_from_shore_m, units)
                steps == BuildSurfaceSteps(variant, bp, bd, period_s)
            IN  /\ bp = breakingPointFromPhysics
                /\ BuildWaveShapeData(steps, bp, bd, bdDisplay, units) = waveShapeData

\* a surface between a breaking sample and a sample further out, where some
\* variant changes the phase speed interpolated along the way
C30_Witness ==
    /\ Rendered
    /\ ~IsNull(breakingPointFromPhysics)
    /\ Len(shoalingPath) > 1
    /\ \E variant \in SpeedVariants :
          \E j \in DOMAIN surfaceSteps :
              c_interp(variant, surfaceSteps[j].x_m) # surfaceSteps[j].c

====
